---- MODULE Spec2Model ----
(***************************************************************************)
(* pktreplay: the reader thread (pcap-reader), the watermark channel       *)
(* (channel.rs), the writer thread (pkt-writer) and the main thread that   *)
(* joins both (main.rs input_task).                                        *)
(*                                                                         *)
(* The input is a capture file (InputMethod::File, read by PacketIter).     *)
(* Packets are identified by their 1-based position in the capture file.   *)
(* After MaxPasses passes over the file the next open fails, as it does     *)
(* in the code once the file has been removed.                             *)
(* The channel mutex is explicit (mux), so that the not-mutex-protected    *)
(* mpsc FIFO operations interleave with the mutex-protected counter        *)
(* updates exactly as in the code.                                         *)
(*                                                                         *)
(* Spec and FairSpec are the pipeline from the call of input_task on;      *)
(* ConfigSpec is main() from the command line to that call.                *)
(***************************************************************************)
EXTENDS Integers, Sequences, FiniteSets, TLC

\* Bounds of the model.
MaxHi == 3
MaxFile == 3
MaxLimit == 2
MaxPasses == 2
MaxRate == 2
MaxTime == 8
MaxWhen == 2
MaxLen == 2
MaxCalls == 3
MaxInterval == 2
WordBits == 24

VARIABLES
    \* configuration (main.rs Params), fixed for a run
    hi,         \* Tx.watermark_hi
    lo,         \* Rx.watermark_lo
    loop_file,  \* params.looping
    limit,      \* params.count: {} for None, {n} for Some(n)
    flen,       \* number of packets in the capture file
    output,     \* params.output: "sink" for None, "interface" for Some(name)
    \* the other command-line options (Params); an Option is {} or {value}
    pps,        \* params.rate.pps
    mbps,       \* params.rate.mbps, in units of half a bit per second
    fullspeed,  \* params.rate.fullspeed
    file,       \* params.input.file is given
    interface,  \* params.input.interface is given
    high,       \* params.high
    low,        \* params.low
    \* locals of main()
    method,     \* "File" or "Interface"; "none" before the options are parsed
    rate,       \* the Rate: its kind and its target (pps, or bits per second)
    ch_hi, ch_low,
    delayer,    \* the Delayer the pipe was created with, "none" before
    \* shared
    stop,       \* terminate: Arc<AtomicBool>
    packets,    \* ChannelContext.packets
    paused,     \* ChannelContext.paused
    mux,        \* the channel mutex: "free", or "tx" while the producer holds it
    fifo,       \* the mpsc queue
    rx_alive,   \* the mpsc Receiver has not been dropped
    tx_alive,   \* the mpsc Sender has not been dropped
    \* reader thread
    r_pc, opened, pass, pos, taken, cur, t_waited, r_result,
    \* writer thread
    w_pc, pkt, w_end, w_result,
    st_packets, \* Stats.packets
    st_invalid, \* Stats.invalid
    st_bytes,   \* Stats.bytes
    interval,   \* Stats.interval, in seconds: {} for None
    last_stat,  \* Stats.last_stat
    reports,    \* the summaries sent on Stats.sender: the time of each
    warned,     \* number of logged "Error while sending stat summary"
    \* the Delayer of the writer thread
    d_pc,       \* "ok", or "panic" once wait_time_for has panicked
    d_start,    \* BpsDelay.start, PpsDelay.start
    bits_sent,  \* BpsDelay.bits_sent
    d_packets,  \* PpsDelay.packets
    last_packet,\* PacketRateDelay.last_packet: {} for None
    wait,       \* what the last wait_time_for returned, in microseconds
    d_pkt,      \* the packet of the last wait_time_for: its when and length
    d_calls,    \* number of wait_time_for calls
    \* environment
    now,        \* the clock, in seconds
    report_rx,  \* the Receiver of the summaries (stat-reader) is alive
    \* main thread
    m_pc, ret,
    \* history
    passed,     \* packets given to Tx::write_packet, in call order
    sent,       \* packets for which Tx::write_packet returned Ok
    yielded,    \* packets yielded by IntoRxIter::next
    written,    \* packets handed to PacketWriter::write_packet (write_raw)
    delayed,    \* packets for which Delayer::wait_time_for was called
    returned    \* the lengths write_raw returned with Ok, in call order

env == <<now, report_rx>>
params == <<pps, mbps, fullspeed, file, interface, high, low>>
locals == <<method, rate, ch_hi, ch_low, delayer>>
cfg == <<hi, lo, loop_file, limit, flen, output, params, locals, env>>
chan == <<packets, paused, mux, fifo, rx_alive, tx_alive>>
rvars == <<r_pc, opened, pass, pos, taken, cur, t_waited, r_result>>
stats == <<st_packets, st_invalid, st_bytes>>
report == <<interval, last_stat, reports, warned>>
dstate == <<d_pc, d_start, bits_sent, d_packets, last_packet, wait, d_pkt,
            d_calls>>
wvars == <<w_pc, pkt, w_end, w_result, stats, report, dstate>>
mvars == <<m_pc, ret>>
hist == <<passed, sent, yielded, written, delayed, returned>>
vars == <<cfg, stop, chan, rvars, wvars, mvars, hist>>

----------------------------------------------------------------------------
\* main.rs 248-253: the watermark pairs main() lets through (ch_low < ch_hi).
Watermarks == {p \in (1..MaxHi) \X (0..MaxHi) : p[2] < p[1]}

Limits == {{}} \cup {{n} : n \in 0..MaxLimit}

\* channel.rs 140-163, pipe.rs 281-288, main.rs 75-82: the channel, the
\* statistics and both threads as they are when created.
Created ==
    /\ stop = FALSE
    /\ packets = 0 /\ paused = FALSE /\ mux = "free"
    /\ fifo = <<>> /\ rx_alive = TRUE /\ tx_alive = TRUE
    /\ r_pc = "open" /\ opened = FALSE /\ pass = 0 /\ pos = 0 /\ taken = 0
    /\ cur = 0 /\ t_waited = FALSE /\ r_result = "none"
    /\ w_pc = "next" /\ pkt = 0 /\ w_end = "none" /\ w_result = "none"
    /\ st_packets = 0 /\ st_invalid = 0 /\ st_bytes = 0
    /\ last_stat = 0 /\ reports = <<>> /\ warned = 0
    /\ d_pc = "ok" /\ d_start = 0 /\ bits_sent = 0 /\ d_packets = 0
    /\ last_packet = {} /\ wait = {} /\ d_calls = 0
    /\ d_pkt = [when |-> 0, len |-> 0]
    /\ now = 0 /\ report_rx = TRUE
    /\ passed = <<>> /\ sent = <<>> /\ yielded = <<>> /\ written = <<>>
    /\ delayed = <<>> /\ returned = <<>>

\* The pipeline at the call of input_task, for `-f FILE -H hi -L lo` and no
\* rate option: main() has chosen Rate::Delayed and created channel and pipe.
Init ==
    /\ \E p \in Watermarks : hi = p[1] /\ lo = p[2]
    /\ loop_file \in BOOLEAN
    /\ limit \in Limits
    /\ flen \in 1..MaxFile
    /\ output \in {"sink", "interface"}
    /\ pps = {} /\ mbps = {} /\ fullspeed = FALSE
    /\ file = TRUE /\ interface = FALSE
    /\ high = {hi} /\ low = {lo}
    /\ method = "File"
    /\ rate = [kind |-> "Delayed", val |-> 0]
    /\ ch_hi = hi /\ ch_low = lo
    /\ delayer = "PacketRateDelay"
    /\ interval = {}
    /\ Created
    /\ m_pc = "join_reader" /\ ret = 0

----------------------------------------------------------------------------
\* channel.rs 119: the producer pauses itself at the high watermark.
ShouldPause(p, h) == p >= h

ShouldResumeAtLo(p, l, pa) == p <= l /\ pa

\* channel.rs 70: the consumer resumes the producer below the low watermark.
ShouldResume(p, l, pa) == p < l /\ pa

\* channel.rs 127: ctx.packets += 1.
Enqueued(p) == p + 1

NotDequeued(p) == p

\* channel.rs 69: ctx.packets -= 1.
Dequeued(p) == p - 1

FifoPushFront(q, x) == <<x>> \o q

\* channel.rs 126: mpsc send appends at the tail.
FifoPush(q, x) == Append(q, x)

\* channel.rs 66: mpsc recv takes the head.
FifoFront(q) == Head(q)

FifoPop(q) == Tail(q)

\* output.rs 48: the frame length above which a refused inject is not an error.
InjectLimit == 1500

\* input.rs 98-103: the length in bytes of packet p of the capture file; the
\* file holds frames of 600, 1200, 1800, ... bytes.
DataLen(p) == 600 * p

\* output.rs 22-27, 40-57: what write_raw returns with Ok for packet p. The
\* /dev/null sink takes every frame whole; the interface, of standard MTU,
\* refuses the frames above InjectLimit as too long, which counts as Ok(0).
SinkReturns(o, p) ==
    IF o = "interface" /\ DataLen(p) > InjectLimit THEN 0 ELSE DataLen(p)

StatsUpdateCountAll(bytes) ==
    /\ st_packets' = st_packets + 1
    /\ st_invalid' = st_invalid
    /\ st_bytes' = st_bytes + bytes

\* pipe.rs 54-60: Stats::update, the counters.
StatsUpdate(bytes) ==
    /\ IF bytes = 0
       THEN st_invalid' = st_invalid + 1 /\ UNCHANGED st_packets
       ELSE st_packets' = st_packets + 1 /\ UNCHANGED st_invalid
    /\ st_bytes' = st_bytes + bytes

\* An Option over the values of S.
Opt(S) == {{}} \cup {{x} : x \in S}

\* The value of a Some.
The(o) == CHOOSE x \in o : TRUE

\* pipe.rs 197, 239: microseconds in a second.
MicrosPerSec == 1000000

\* The range of the unsigned word of the delayers' arithmetic (u64 in the
\* code), narrowed to WordBits bits.
Word == 2 ^ WordBits

\* a * b does not fit the word.
MulWraps(a, b) == a * b >= Word

\* pipe.rs 197, 239: the product of two words as the release build computes it.
MulU64(a, b) == (a * b) % Word

\* Instant::elapsed() of an Instant taken at second t, in microseconds.
Elapsed(t) == (now - t) * MicrosPerSec

\* input.rs 98-101: the capture timestamp of packet p of the file, in seconds.
When(p) == p

\* pipe.rs 61-72: Stats::update, the periodic summary.
StatsReport ==
    IF interval # {} /\ Elapsed(last_stat) > The(interval) * MicrosPerSec
    THEN /\ IF report_rx
            THEN reports' = Append(reports, now) /\ UNCHANGED warned
            ELSE warned' = warned + 1 /\ UNCHANGED reports
         /\ last_stat' = now
         /\ UNCHANGED interval
    ELSE UNCHANGED report

PacketRateWaitAbs(last, when) ==
    IF last = {} THEN {}
    ELSE IF when >= The(last)
    THEN {(when - The(last)) * MicrosPerSec}
    ELSE {(The(last) - when) * MicrosPerSec}

\* pipe.rs 271-273: last_packet.and_then(|t| pkt.when.duration_since(t).ok()).
PacketRateWait(last, when) ==
    IF last # {} /\ when >= The(last)
    THEN {(when - The(last)) * MicrosPerSec}
    ELSE {}

\* pipe.rs 197: Duration::from_micros((bits_sent * 1_000_000) / bps).
BpsEstimated(bits, bps) == MulU64(bits, MicrosPerSec) \div bps

\* pipe.rs 197-204: the wait of BpsDelay for a packet of len bytes.
BpsWait(bits, len, bps, elapsed) ==
    IF elapsed < BpsEstimated(bits, bps)
    THEN {BpsEstimated(bits, bps) - elapsed}
    ELSE {}

\* pipe.rs 239: Duration::from_micros((packets * 1_000_000) / pps).
PpsEstimated(n, target) == MulU64(n, MicrosPerSec) \div target

\* pipe.rs 241-246: the wait of PpsDelay after its first packet.
PpsWait(n, target, elapsed) ==
    IF PpsEstimated(n, target) > elapsed
    THEN {PpsEstimated(n, target) - elapsed}
    ELSE {}

\* wait_time_for panics: nothing of the delayer is updated.
DelayPanic ==
    /\ d_pc' = "panic"
    /\ UNCHANGED <<bits_sent, d_packets, last_packet, wait>>

\* pipe.rs 164-166, 196-205, 231-248, 270-276: Delayer::wait_time_for for a
\* packet of timestamp when and len bytes. The division by a target of 0
\* panics; a product that does not fit the word wraps, or panics in a build
\* with overflow checks.
WaitTimeFor(when, len) ==
    /\ d_pc = "ok"
    /\ d_pkt' = [when |-> when, len |-> len]
    /\ d_calls' = d_calls + 1
    /\ UNCHANGED d_start
    /\ CASE delayer = "NoDelay" ->
              /\ wait' = {}
              /\ UNCHANGED <<d_pc, bits_sent, d_packets, last_packet>>
         [] delayer = "PacketRateDelay" ->
              /\ wait' = PacketRateWait(last_packet, when)
              /\ last_packet' = {when}
              /\ UNCHANGED <<d_pc, bits_sent, d_packets>>
         [] delayer = "BpsDelay" ->
              IF rate.val = 0
              THEN DelayPanic
              ELSE \/ /\ wait' = BpsWait(bits_sent, len, rate.val,
                                         Elapsed(d_start))
                      /\ bits_sent' = bits_sent + len * 8
                      /\ UNCHANGED <<d_pc, d_packets, last_packet>>
                   \/ /\ MulWraps(bits_sent, MicrosPerSec)
                      /\ DelayPanic
         [] delayer = "PpsDelay" ->
              IF d_packets = 0
              THEN /\ wait' = {}
                   /\ d_packets' = 1
                   /\ UNCHANGED <<d_pc, bits_sent, last_packet>>
              ELSE IF rate.val = 0
              THEN DelayPanic
              ELSE \/ /\ wait' = PpsWait(d_packets, rate.val,
                                         Elapsed(d_start))
                      /\ d_packets' = d_packets + 1
                      /\ UNCHANGED <<d_pc, bits_sent, last_packet>>
                   \/ /\ MulWraps(d_packets, MicrosPerSec)
                      /\ DelayPanic

\* main.rs 108-112: Iterator::take(n) has yielded its n items.
TakeDone == limit # {} /\ \A n \in limit : taken >= n

----------------------------------------------------------------------------
\* Reader thread: main.rs 79-120, pipe.rs read_packets_to, channel.rs Tx.

\* The closure returns with result res; tx, moved into it, is dropped.
ReaderReturn(res) ==
    /\ r_pc' = "done"
    /\ r_result' = res
    /\ tx_alive' = FALSE

ReaderOpenFailIsErr ==
    /\ r_pc = "open"
    /\ \/ /\ pass < MaxPasses
          /\ opened' = (opened \/ loop_file)
          /\ pass' = pass + 1
          /\ pos' = 0
          /\ taken' = 0
          /\ r_pc' = "next"
          /\ UNCHANGED <<r_result, tx_alive>>
       \/ /\ ReaderReturn("Err")
          /\ UNCHANGED <<opened, pass, pos, taken>>
    /\ UNCHANGED <<cfg, stop, packets, paused, mux, fifo, rx_alive, cur,
                   t_waited, wvars, mvars, hist>>

\* main.rs 84-106: method.to_pcap_input(); the open succeeds or fails.
ReaderOpen ==
    /\ r_pc = "open"
    /\ \/ /\ pass < MaxPasses
          /\ opened' = (opened \/ loop_file)
          /\ pass' = pass + 1
          /\ pos' = 0
          /\ taken' = 0
          /\ r_pc' = "next"
          /\ UNCHANGED <<r_result, tx_alive>>
       \/ /\ ReaderReturn(IF loop_file /\ opened THEN "Ok" ELSE "Err")
          /\ UNCHANGED <<opened, pass, pos, taken>>
    /\ UNCHANGED <<cfg, stop, packets, paused, mux, fifo, rx_alive, cur,
                   t_waited, wvars, mvars, hist>>

\* pipe.rs 147 on main.rs 108-112 and input.rs 92-106: Take::next over
\* PacketIter::next. The file packet is consumed before stop is looked at.
IterNext ==
    /\ r_pc = "next"
    /\ IF TakeDone \/ pos = flen
       THEN /\ r_pc' = "loopchk"
            /\ UNCHANGED <<pos, taken, cur, passed>>
       ELSE /\ pos' = pos + 1
            /\ taken' = taken + 1
            /\ IF stop
               THEN /\ r_pc' = "loopchk"
                    /\ UNCHANGED <<cur, passed>>
               ELSE /\ cur' = pos + 1
                    /\ passed' = Append(passed, pos + 1)
                    /\ r_pc' = "lock"
    /\ UNCHANGED <<cfg, stop, chan, opened, pass, t_waited, r_result, wvars,
                   mvars, sent, yielded, written, delayed, returned>>

\* main.rs 113-119: read_packets_to returned Ok; loop again or break.
LoopCheck ==
    /\ r_pc = "loopchk"
    /\ IF ~loop_file \/ stop
       THEN ReaderReturn("Ok")
       ELSE r_pc' = "open" /\ UNCHANGED <<r_result, tx_alive>>
    /\ UNCHANGED <<cfg, stop, packets, paused, mux, fifo, rx_alive, opened,
                   pass, pos, taken, cur, t_waited, wvars, mvars, hist>>

\* channel.rs 117-121: lock the mutex, pause at the high watermark.
TxLock ==
    /\ r_pc = "lock"
    /\ mux = "free"
    /\ mux' = "tx"
    /\ paused' = (paused \/ ShouldPause(packets, hi))
    /\ t_waited' = FALSE
    /\ r_pc' = "check"
    /\ UNCHANGED <<cfg, stop, packets, fifo, rx_alive, tx_alive, opened, pass,
                   pos, taken, cur, r_result, wvars, mvars, hist>>

\* channel.rs 122-125: while ctx.paused { cvar.wait(ctx) }; the wait releases
\* the mutex.
TxCheck ==
    /\ r_pc = "check"
    /\ IF paused
       THEN /\ r_pc' = "wait"
            /\ mux' = "free"
            /\ t_waited' = TRUE
       ELSE /\ r_pc' = "send"
            /\ UNCHANGED <<mux, t_waited>>
    /\ UNCHANGED <<cfg, stop, packets, paused, fifo, rx_alive, tx_alive,
                   opened, pass, pos, taken, cur, r_result, wvars, mvars,
                   hist>>

\* channel.rs 124: Condvar::wait returns, on a notification or spuriously,
\* with the mutex reacquired.
TxWake ==
    /\ r_pc = "wait"
    /\ mux = "free"
    /\ mux' = "tx"
    /\ r_pc' = "check"
    /\ UNCHANGED <<cfg, stop, packets, paused, fifo, rx_alive, tx_alive,
                   opened, pass, pos, taken, cur, t_waited, r_result, wvars,
                   mvars, hist>>

TxSendKeepLock ==
    /\ r_pc = "send"
    /\ IF rx_alive
       THEN /\ fifo' = FifoPush(fifo, cur)
            /\ r_pc' = "inc"
            /\ UNCHANGED <<r_result, tx_alive>>
       ELSE /\ ReaderReturn("Err")
            /\ UNCHANGED fifo
    /\ UNCHANGED <<cfg, stop, packets, paused, mux, rx_alive, opened, pass,
                   pos, taken, cur, t_waited, wvars, mvars, hist>>

TxSendUnlocked ==
    /\ r_pc = "send"
    /\ mux' = "free"
    /\ IF rx_alive
       THEN /\ fifo' = FifoPush(fifo, cur)
            /\ r_pc' = "inc"
            /\ UNCHANGED <<r_result, tx_alive>>
       ELSE /\ ReaderReturn("Err")
            /\ UNCHANGED fifo
    /\ UNCHANGED <<cfg, stop, packets, paused, rx_alive, opened, pass, pos,
                   taken, cur, t_waited, wvars, mvars, hist>>

\* channel.rs 126: self.sender.send(pkt)?, with the mutex held. The send fails
\* iff the Receiver has been dropped; the error leaves write_packet,
\* read_packets_to (pipe.rs 148) and the reader closure (main.rs 113).
TxSend ==
    /\ r_pc = "send"
    /\ IF rx_alive
       THEN /\ fifo' = FifoPush(fifo, cur)
            /\ r_pc' = "inc"
            /\ UNCHANGED <<mux, r_result, tx_alive>>
       ELSE /\ mux' = "free"
            /\ ReaderReturn("Err")
            /\ UNCHANGED fifo
    /\ UNCHANGED <<cfg, stop, packets, paused, rx_alive, opened, pass, pos,
                   taken, cur, t_waited, wvars, mvars, hist>>

\* channel.rs 127-130: count the packet, unlock, return Ok.
TxInc ==
    /\ r_pc = "inc"
    /\ packets' = Enqueued(packets)
    /\ mux' = "free"
    /\ sent' = Append(sent, cur)
    /\ r_pc' = "next"
    /\ UNCHANGED <<cfg, stop, paused, fifo, rx_alive, tx_alive, opened, pass,
                   pos, taken, cur, t_waited, r_result, wvars, mvars, passed,
                   yielded, written, delayed, returned>>

ReaderNext ==
    \/ ReaderOpen \/ IterNext \/ LoopCheck
    \/ TxLock \/ TxCheck \/ TxWake \/ TxSend \/ TxInc

----------------------------------------------------------------------------
\* Writer thread: pipe.rs write_packets, channel.rs IntoRxIter and Drop for Rx.

RxNextNoStop ==
    /\ w_pc = "next"
    /\ w_pc' = "recv"
    /\ UNCHANGED <<cfg, stop, chan, rvars, pkt, w_end, w_result, stats, report,
                   dstate, mvars, hist>>

\* channel.rs 62-64: next() looks at stop first.
RxNext ==
    /\ w_pc = "next"
    /\ IF stop
       THEN w_pc' = "drop" /\ w_end' = "stop"
       ELSE w_pc' = "recv" /\ UNCHANGED w_end
    /\ UNCHANGED <<cfg, stop, chan, rvars, pkt, w_result, stats, report,
                   dstate, mvars, hist>>

\* channel.rs 66: recv() blocks while the queue is empty and the Sender lives;
\* it fails once the queue is empty and the Sender is gone.
RxRecv ==
    /\ w_pc = "recv"
    /\ \/ /\ fifo # <<>>
          /\ pkt' = FifoFront(fifo)
          /\ fifo' = FifoPop(fifo)
          /\ w_pc' = "dec"
          /\ UNCHANGED w_end
       \/ /\ fifo = <<>>
          /\ ~tx_alive
          /\ w_pc' = "drop"
          /\ w_end' = "eos"
          /\ UNCHANGED <<pkt, fifo>>
    /\ UNCHANGED <<cfg, stop, packets, paused, mux, rx_alive, tx_alive, rvars,
                   w_result, stats, report,
                   dstate, mvars, hist>>

\* channel.rs 67-77: under the mutex, count the packet out and resume the
\* producer below the low watermark; then yield the packet. A decrement of a
\* zero u64 counter ends the thread in "panic".
RxDec ==
    /\ w_pc = "dec"
    /\ mux = "free"
    /\ IF packets = 0
       THEN /\ w_pc' = "panic"
            /\ UNCHANGED <<packets, paused, yielded>>
       ELSE /\ packets' = Dequeued(packets)
            /\ paused' = (paused /\ ~ShouldResume(Dequeued(packets), lo, paused))
            /\ yielded' = Append(yielded, pkt)
            /\ w_pc' = "delay"
    /\ UNCHANGED <<cfg, stop, mux, fifo, rx_alive, tx_alive, rvars, pkt,
                   w_end, w_result, stats, report, dstate, mvars,
                   passed, sent, written, delayed, returned>>

\* pipe.rs 290-293: delay.wait_time_for(&pkt) and the sleep it asks for.
WrDelay ==
    /\ w_pc = "delay"
    /\ WaitTimeFor(When(pkt), DataLen(pkt))
    /\ delayed' = Append(delayed, pkt)
    /\ w_pc' = "write"
    /\ UNCHANGED <<cfg, stop, chan, rvars, pkt, w_end, w_result, stats, report,
                   mvars, passed, sent, yielded, written, returned>>

WrWriteNoBreak ==
    /\ w_pc = "write"
    /\ written' = Append(written, pkt)
    /\ \/ /\ StatsUpdate(SinkReturns(output, pkt))
          /\ StatsReport
          /\ returned' = Append(returned, SinkReturns(output, pkt))
          /\ UNCHANGED w_end
       \/ w_end' = "werr" /\ UNCHANGED <<stats, report, returned>>
    /\ w_pc' = "next"
    /\ UNCHANGED <<cfg, stop, chan, rvars, pkt, w_result, dstate, mvars,
                   passed, sent, yielded, delayed>>

\* pipe.rs 294-302: output.write_packet(pkt); Ok(len) goes to stats.update,
\* an error breaks the loop.
WrWrite ==
    /\ w_pc = "write"
    /\ written' = Append(written, pkt)
    /\ \/ /\ StatsUpdate(SinkReturns(output, pkt))
          /\ StatsReport
          /\ returned' = Append(returned, SinkReturns(output, pkt))
          /\ w_pc' = "next"
          /\ UNCHANGED w_end
       \/ /\ w_pc' = "drop"
          /\ w_end' = "werr"
          /\ UNCHANGED <<stats, report, returned>>
    /\ UNCHANGED <<cfg, stop, chan, rvars, pkt, w_result, dstate, mvars,
                   passed, sent, yielded, delayed>>

\* channel.rs 91-101: Drop for Rx, the body.
RxDrop ==
    /\ w_pc = "drop"
    /\ mux = "free"
    /\ packets' = 0
    /\ paused' = FALSE
    /\ w_pc' = "dropped"
    /\ UNCHANGED <<cfg, stop, mux, fifo, rx_alive, tx_alive, rvars, pkt,
                   w_end, w_result, stats, report,
                   dstate, mvars, hist>>

\* channel.rs 45-50: after Drop::drop the fields of Rx are dropped, the
\* Receiver among them, and what it still held is discarded; pipe.rs 304:
\* write_packets returns Ok(stats).
RxDropRecv ==
    /\ w_pc = "dropped"
    /\ rx_alive' = FALSE
    /\ fifo' = <<>>
    /\ w_pc' = "done"
    /\ w_result' = "Ok"
    /\ UNCHANGED <<cfg, stop, packets, paused, mux, tx_alive, rvars, pkt,
                   w_end, stats, report,
                   dstate, mvars, hist>>

WriterNext ==
    \/ RxNext \/ RxRecv \/ RxDec \/ WrDelay \/ WrWrite \/ RxDrop \/ RxDropRecv

----------------------------------------------------------------------------
\* Main thread: main.rs 122-140.

JoinReaderNoMask ==
    /\ m_pc = "join_reader"
    /\ r_pc = "done"
    /\ ret' = IF r_result = "Err" THEN -1 ELSE ret
    /\ m_pc' = "join_writer"
    /\ UNCHANGED <<cfg, stop, chan, rvars, wvars, hist>>

\* main.rs 123-131: join the reader; its error counts unless stop is set.
JoinReader ==
    /\ m_pc = "join_reader"
    /\ r_pc = "done"
    /\ ret' = IF r_result = "Err" /\ ~stop THEN -1 ELSE ret
    /\ m_pc' = "join_writer"
    /\ UNCHANGED <<cfg, stop, chan, rvars, wvars, hist>>

\* main.rs 133-139: pipe.wait() joins the writer.
JoinWriter ==
    /\ m_pc = "join_writer"
    /\ w_pc = "done"
    /\ ret' = IF w_result = "Err" THEN -1 ELSE ret
    /\ m_pc' = "exit"
    /\ UNCHANGED <<cfg, stop, chan, rvars, wvars, hist>>

\* main.rs 256-263: SIGINT or SIGTERM sets the flag.
Signal ==
    /\ ~stop
    /\ m_pc # "exit"
    /\ stop' = TRUE
    /\ UNCHANGED <<cfg, chan, rvars, wvars, mvars, hist>>

Next == ReaderNext \/ WriterNext \/ JoinReader \/ JoinWriter \/ Signal

Spec == Init /\ [][Next]_vars

\* The scheduler runs every thread that can run. The writer takes the mutex
\* only when it finds it free, and the producer frees it at every wait, so the
\* writer's turn is strongly fair.
FairSpec ==
    /\ Spec
    /\ WF_vars(ReaderNext)
    /\ SF_vars(WriterNext)
    /\ WF_vars(JoinReader)
    /\ WF_vars(JoinWriter)


----------------------------------------------------------------------------
\* main(): main.rs 242-293, from the parsed command line to input_task.

DefaultHi == 100

\* main.rs 205: (mbps * 1_000_000_f32) as u64; the cast truncates, and the
\* option is held in units of half a bit per second.
MbpsToBps(m) == m \div 2

GetRateFullFirst(p, m, f) ==
    IF f THEN [kind |-> "Full", val |-> 0]
    ELSE IF p # {} THEN [kind |-> "Pps", val |-> The(p)]
    ELSE IF m # {} THEN [kind |-> "Mbps", val |-> MbpsToBps(The(m))]
    ELSE [kind |-> "Delayed", val |-> 0]

\* main.rs 198-211: RateParam::get_rate.
GetRate(p, m, f) ==
    IF p # {} THEN [kind |-> "Pps", val |-> The(p)]
    ELSE IF m # {} THEN [kind |-> "Mbps", val |-> MbpsToBps(The(m))]
    ELSE IF f THEN [kind |-> "Full", val |-> 0]
    ELSE [kind |-> "Delayed", val |-> 0]

\* main.rs 265-271: reading from an interface forces Delayed to Full.
Upgrade(me, r) ==
    IF me = "Interface" /\ r.kind = "Delayed"
    THEN [kind |-> "Full", val |-> 0]
    ELSE r

\* main.rs 150-155 with pipe.rs 323-358: the Delayer create_pipe builds.
DelayerFor(r) ==
    CASE r.kind = "Full" -> "NoDelay"
      [] r.kind = "Delayed" -> "PacketRateDelay"
      [] r.kind = "Mbps" -> "BpsDelay"
      [] r.kind = "Pps" -> "PpsDelay"

\* The number of rate options given on the command line.
RateOptions ==
    (IF pps # {} THEN 1 ELSE 0) + (IF mbps # {} THEN 1 ELSE 0)
        + (IF fullspeed THEN 1 ELSE 0)

\* The command line, before Params::parse().
ConfigInit ==
    /\ pps \in Opt(0..MaxRate)
    /\ mbps \in Opt(0..MaxRate)
    /\ fullspeed \in BOOLEAN
    /\ file \in BOOLEAN
    /\ interface \in BOOLEAN
    /\ high \in Opt(0..MaxHi)
    /\ low \in Opt(0..MaxHi)
    /\ output \in {"sink", "interface"}
    /\ loop_file = FALSE /\ limit = {} /\ flen = 1
    /\ hi = 0 /\ lo = 0
    /\ method = "none"
    /\ rate = [kind |-> "none", val |-> 0]
    /\ ch_hi = 0 /\ ch_low = 0
    /\ delayer = "none"
    /\ interval = {}
    /\ Created
    /\ m_pc = "parse" /\ ret = 0

threads == <<stop, chan, rvars, wvars, hist, env>>

\* The process exits with the given code.
MainExit(code) ==
    /\ m_pc' = "exit"
    /\ ret' = code

\* main.rs 244-245: Params::parse() and InputParam::method(). The groups of
\* main.rs 160 and 185 (multiple = false) make clap refuse, with its usage
\* error 2, a command line with no or two inputs or with two rate options.
MainParse ==
    /\ m_pc = "parse"
    /\ IF file # interface /\ RateOptions <= 1
       THEN /\ method' = (IF file THEN "File" ELSE "Interface")
            /\ m_pc' = "rate"
            /\ UNCHANGED ret
       ELSE /\ MainExit(2)
            /\ UNCHANGED method
    /\ UNCHANGED <<hi, lo, loop_file, limit, flen, output, params, rate,
                   ch_hi, ch_low, delayer, threads>>

\* main.rs 246.
MainGetRate ==
    /\ m_pc = "rate"
    /\ rate' = GetRate(pps, mbps, fullspeed)
    /\ m_pc' = "watermarks"
    /\ UNCHANGED <<hi, lo, loop_file, limit, flen, output, params, method,
                   ch_hi, ch_low, delayer, threads, ret>>

\* main.rs 248-253.
MainWatermarks ==
    /\ m_pc = "watermarks"
    /\ ch_hi' = (IF high = {} THEN DefaultHi ELSE The(high))
    /\ ch_low' = (IF low = {} THEN ch_hi' \div 2 ELSE The(low))
    /\ IF ch_low' >= ch_hi'
       THEN MainExit(-1)
       ELSE m_pc' = "signals" /\ UNCHANGED ret
    /\ UNCHANGED <<hi, lo, loop_file, limit, flen, output, params, method,
                   rate, delayer, threads>>

\* main.rs 255-263: flag::register for SIGINT and SIGTERM, which can fail.
MainSignals ==
    /\ m_pc = "signals"
    /\ \/ m_pc' = "upgrade" /\ UNCHANGED ret
       \/ MainExit(-1)
    /\ UNCHANGED <<hi, lo, loop_file, limit, flen, output, params, locals,
                   threads>>

\* main.rs 265-271.
MainUpgrade ==
    /\ m_pc = "upgrade"
    /\ rate' = Upgrade(method, rate)
    /\ m_pc' = "create"
    /\ UNCHANGED <<hi, lo, loop_file, limit, flen, output, params, method,
                   ch_hi, ch_low, delayer, threads, ret>>

\* main.rs 273 with channel.rs 140-163: channel::create(ch_hi, ch_low, ..).
MainCreateChannel ==
    /\ m_pc = "create"
    /\ hi' = ch_hi
    /\ lo' = ch_low
    /\ m_pc' = "pipe"
    /\ UNCHANGED <<loop_file, limit, flen, output, params, locals, threads,
                   ret>>

\* main.rs 274-293: the output is opened and create_pipe spawns pkt-writer
\* with the Delayer of the rate, then input_task runs; or one of them fails.
MainCreatePipe ==
    /\ m_pc = "pipe"
    /\ \/ /\ delayer' = DelayerFor(rate)
          /\ m_pc' = "join_reader"
          /\ UNCHANGED ret
       \/ /\ MainExit(-1)
          /\ UNCHANGED delayer
    /\ UNCHANGED <<hi, lo, loop_file, limit, flen, output, params, method,
                   rate, ch_hi, ch_low, threads>>

ConfigNext ==
    \/ MainParse \/ MainGetRate \/ MainWatermarks \/ MainSignals
    \/ MainUpgrade \/ MainCreateChannel \/ MainCreatePipe

ConfigSpec == ConfigInit /\ [][ConfigNext]_vars

----------------------------------------------------------------------------
\* The writer's clock-dependent parts on their own: the Delayer (pipe.rs
\* 156-277) and the periodic summary of Stats (pipe.rs 54-74), with the
\* clock advancing between the calls.

\* A pipeline created by main() for `-f FILE` and at most one rate option.
Session ==
    /\ hi = MaxHi /\ lo = 1
    /\ high = {hi} /\ low = {lo}
    /\ ch_hi = hi /\ ch_low = lo
    /\ loop_file = FALSE /\ limit = {} /\ flen = 1
    /\ output = "sink"
    /\ file = TRUE /\ interface = FALSE
    /\ method = "File"
    /\ RateOptions <= 1
    /\ rate = Upgrade(method, GetRate(pps, mbps, fullspeed))
    /\ delayer = DelayerFor(rate)
    /\ Created
    /\ m_pc = "join_reader" /\ ret = 0

\* pipe.rs 287-288: the writer has called stats.reset() and delay.init().
DelayInit ==
    /\ pps \in Opt(0..MaxRate)
    /\ mbps \in Opt(0..MaxRate)
    /\ fullspeed \in BOOLEAN
    /\ interval = {}
    /\ Session

\* main.rs 274-280: Stats::periodic(period) for `-S period`, or the default.
StatsInit ==
    /\ pps = {} /\ mbps = {} /\ fullspeed = FALSE
    /\ interval \in Opt(1..MaxInterval)
    /\ Session

\* A second passes.
Tick ==
    /\ now < MaxTime
    /\ now' = now + 1
    /\ UNCHANGED <<hi, lo, loop_file, limit, flen, output, params, locals,
                   report_rx, stop, chan, rvars, wvars, mvars, hist>>

\* pipe.rs 290: delay.wait_time_for(&pkt) for the next packet.
DelayCall ==
    /\ d_calls < MaxCalls
    /\ \E when \in 0..MaxWhen, len \in 1..MaxLen : WaitTimeFor(when, len)
    /\ UNCHANGED <<cfg, stop, chan, rvars, w_pc, pkt, w_end, w_result, stats,
                   report, mvars, hist>>

\* pipe.rs 296: stats.update(len) for the next write.
StatsCall ==
    /\ st_packets + st_invalid < MaxCalls
    /\ \E bytes \in 0..MaxLen : StatsUpdate(bytes)
    /\ StatsReport
    /\ UNCHANGED <<cfg, stop, chan, rvars, w_pc, pkt, w_end, w_result,
                   dstate, mvars, hist>>

\* main.rs 51-60: the stat-reader thread ends and drops the Receiver.
PrinterGone ==
    /\ report_rx
    /\ report_rx' = FALSE
    /\ UNCHANGED <<hi, lo, loop_file, limit, flen, output, params, locals,
                   now, stop, chan, rvars, wvars, mvars, hist>>

DelayNext == Tick \/ DelayCall

DelaySpec == DelayInit /\ [][DelayNext]_vars

StatsNext == Tick \/ StatsCall \/ PrinterGone

StatsSpec == StatsInit /\ [][StatsNext]_vars
----------------------------------------------------------------------------
\* Vocabulary of the properties.

IsPrefix(s, t) == Len(s) <= Len(t) /\ \A i \in 1..Len(s) : s[i] = t[i]

\* Drop for Rx has run (the Receiver itself may still be alive).
RxTornDown == w_pc \in {"dropped", "done"}

\* A step of Tx::write_packet that calls Condvar::wait.
EntersWait == r_pc = "check" /\ r_pc' = "wait"

\* A step of Tx::write_packet that leaves the wait loop after having waited.
ResumesToSend == r_pc = "check" /\ r_pc' = "send" /\ t_waited

\* C1: no reachable state has the producer waiting on the condvar with paused
\* set while the consumer is blocked in recv() on an empty FIFO.
NoPermanentStall ==
    ~(r_pc = "wait" /\ paused /\ w_pc = "recv" /\ fifo = <<>>)

\* C2: the packets yielded by the consumer iterator, and those handed to
\* write_raw, are in order a prefix of the packets passed to write_packet.
OrderPreserved ==
    /\ IsPrefix(yielded, passed)
    /\ IsPrefix(written, yielded)
    /\ Len(yielded) <= Len(written) + 1

OrderPreservedWitness ==
    /\ Len(written) >= 2
    /\ written[1] # written[2]
    /\ w_pc = "done"

\* C4, as claimed: whenever the mutex is free, packets is the number of
\* successful write_packet returns minus the number of packets yielded, also
\* after the consumer side has been torn down.
DepthInvariant ==
    mux = "free" => packets = Len(sent) - Len(yielded)

\* C4, amended: the equality holds whenever the mutex is free and Drop for Rx
\* has not run.
DepthInvariantUntilTeardown ==
    (mux = "free" /\ ~RxTornDown) => packets = Len(sent) - Len(yielded)

DepthInvariantWitness ==
    /\ mux = "free"
    /\ ~RxTornDown
    /\ packets >= 1
    /\ Len(yielded) >= 1

\* C5, as claimed: every entry into the condvar wait has packets >= hi, and
\* every resumption after a wait has packets < lo.
WatermarkInvariant ==
    [][/\ EntersWait => packets >= hi
       /\ ResumesToSend => packets < lo]_vars

\* C5, amended: the first entry into the wait of a call has packets >= hi, a
\* re-entry after a spurious wakeup has packets >= lo, and a resumption after
\* a wait has packets < lo, or packets = 0 when Drop for Rx released it.
WatermarkInvariantAmended ==
    [][/\ (EntersWait /\ ~t_waited) => packets >= hi
       /\ EntersWait => packets >= lo
       /\ ResumesToSend => (packets < lo \/ (RxTornDown /\ packets = 0))]_vars

WatermarkInvariantWitness ==
    /\ r_pc = "send"
    /\ t_waited
    /\ packets < lo
    /\ ~RxTornDown

\* C6: the counter and the number of packets held in the FIFO never exceed hi.
DepthBounded ==
    /\ packets <= hi
    /\ Len(fifo) <= hi

\* C7: a call of next() that starts with stop set returns end-of-stream
\* without receiving and without changing packets or paused.
PromptCancellation ==
    [][(w_pc = "next" /\ stop /\ w_pc' # "next")
        => /\ w_pc' = "drop"
           /\ fifo' = fifo
           /\ packets' = packets
           /\ paused' = paused
           /\ yielded' = yielded]_vars

PromptCancellationWitness ==
    /\ w_pc = "drop"
    /\ w_end = "stop"
    /\ fifo # <<>>
    /\ packets >= 1

\* C8: once Drop for Rx has run, no write_packet call gets its packet into
\* the FIFO and none is left waiting with paused set.
TeardownReleasesProducer ==
    RxTornDown => (r_pc # "inc" /\ ~(r_pc = "wait" /\ paused))

\* main.rs 108-112 and input.rs 92-106: what one pass over the file yields
\* when stop is not set.
InputCount ==
    IF limit = {} THEN flen
    ELSE CHOOSE k \in 0..flen : \A n \in limit : k = (IF n < flen THEN n ELSE flen)

\* C3: without stop, looping or a write error, once the input is open the
\* writer eventually ends having attempted exactly as many writes as the input
\* yields.
NoLossNormalTermination ==
    ([]~stop /\ [](w_end # "werr"))
        => ((~loop_file /\ pass = 1)
                ~> (w_pc = "done" /\ Len(written) = InputCount))

\* C9: once stop is set, or the writer loop has been left on a write error,
\* the reader and the writer end and the main thread joins both.
CooperativeTermination ==
    (stop \/ w_end = "werr")
        ~> (r_pc = "done" /\ w_pc = "done" /\ m_pc = "exit")

\* C10: with loop_file and limit = L the reader passes at most L packets to
\* write_packet over all passes, the i-th being file packet i mod P.
LoopWithCount ==
    (loop_file /\ limit # {})
        => /\ \A n \in limit : Len(passed) <= n
           /\ \A i \in 1..Len(passed) : passed[i] = ((i - 1) % flen) + 1

\* C11: with hi = 1 and lo = 0 every pause of the producer is resumed by the
\* consumer's dequeue, so that a run without stop, looping or write error
\* yields all N >= 2 packets of the input in production order.
BoundaryAlternation ==
    ([]~stop /\ [](w_end # "werr"))
        => ((hi = 1 /\ lo = 0 /\ ~loop_file /\ pass = 1 /\ InputCount >= 2)
                ~> (/\ Len(yielded) = InputCount
                    /\ \A i \in 1..InputCount : yielded[i] = i))

\* C12: when write_raw has returned an error, the process exit code is -1.
WriterErrorSurfaced ==
    (m_pc = "exit" /\ w_end = "werr") => ret = -1

\* C13: joining the reader makes the exit code -1 exactly when the reader
\* returned an error and stop is not set at the join; with stop set the exit
\* code is left as it was.
ReaderErrorClassified ==
    [][(m_pc = "join_reader" /\ m_pc' # "join_reader")
        => /\ (ret' = -1) <=> (r_result = "Err" /\ ~stop)
           /\ stop => ret' = ret]_vars

ReaderErrorClassifiedWitness ==
    /\ m_pc = "exit"
    /\ r_result = "Err"
    /\ stop
    /\ ret = 0

\* C14: a failed open ends the reader with that error, except that with
\* loop_file and an earlier successful open in the run it ends the reader with
\* Ok; in both cases no further packet is passed to write_packet.
OpenFailure ==
    [][/\ (r_pc = "open" /\ r_pc' = "done")
            => r_result' = (IF loop_file /\ pass >= 1 THEN "Ok" ELSE "Err")
       /\ (r_pc' = "done" /\ r_pc \in {"open", "done"})
            => (passed' = passed /\ sent' = sent)]_vars

OpenFailureWitness ==
    /\ r_pc = "done"
    /\ r_result = "Ok"
    /\ loop_file
    /\ pass = 1
    /\ ~stop
    /\ Len(sent) >= 1

\* C17 as stated: no thread holds the channel mutex while it performs the FIFO
\* send, the blocking FIFO receive, write_raw or the delayer sleep.
MutexNotAcrossIO ==
    /\ mux = "tx" => r_pc # "send"
    /\ mux \in {"free", "tx"}

\* C17: the channel mutex is held only by the producer between its lock and
\* its release in write_packet (the paused check, the non-blocking FIFO send
\* and the increment), never while the file is read or the condvar is waited
\* on, and never by the consumer at its receive, sleep or write_raw.
MutexNotAcrossBlockingIO ==
    /\ mux = "tx" => r_pc \in {"check", "send", "inc"}
    /\ mux \in {"free", "tx"}

MutexNotAcrossBlockingIOWitness ==
    /\ mux = "tx"
    /\ r_pc = "send"
    /\ w_pc = "write"

\* C19: a dequeue that leaves only lo packets in the channel while the
\* producer is paused resumes the producer.
ResumeAtLoAsDocumented ==
    [][(w_pc = "dec" /\ w_pc' = "delay" /\ paused /\ packets' = lo)
        => ~paused']_vars

RECURSIVE SumSeq(_)
\* The sum of the numbers of a sequence.
SumSeq(q) == IF q = <<>> THEN 0 ELSE Head(q) + SumSeq(Tail(q))

\* The number of write attempts that have returned Ok with a length of 0.
ZeroReturns == Cardinality({i \in 1..Len(returned) : returned[i] = 0})

\* C15: packets + invalid is the number of write attempts that have returned
\* Ok, invalid counting those that returned 0 and packets the others, and
\* bytes is the sum of the lengths returned; the attempts that returned Ok
\* are all the attempts but the one that returned the error, if any.
StatsInvariant ==
    /\ st_packets + st_invalid = Len(returned)
    /\ st_invalid = ZeroReturns
    /\ st_packets = Len(returned) - ZeroReturns
    /\ st_bytes = SumSeq(returned)
    /\ Len(returned) = Len(written) - (IF w_end = "werr" THEN 1 ELSE 0)

StatsInvariantWitness ==
    /\ w_pc = "done"
    /\ w_end = "werr"
    /\ st_invalid >= 1
    /\ st_packets >= 2
    /\ st_bytes > st_packets * DataLen(1)

\* C20: wait_time_for is called once for each yielded packet, in order and
\* before that packet's write_raw; a writer that ends without a write error
\* has delayed and written every yielded packet; after a write error nothing
\* more is dequeued, yielded, delayed or written, and write_packets returns
\* Ok with the counters as they were when the error came back.
WriterLoopProtocol ==
    /\ [](/\ IsPrefix(delayed, yielded)
          /\ Len(yielded) <= Len(delayed) + 1
          /\ IsPrefix(written, delayed)
          /\ Len(delayed) <= Len(written) + 1
          /\ (w_pc = "write") <=> (Len(delayed) = Len(written) + 1)
          /\ (w_pc = "done" /\ w_end # "werr")
                => (delayed = yielded /\ written = yielded)
          /\ (w_pc = "done") => (w_result = "Ok"))
    /\ [][w_end = "werr"
            => /\ UNCHANGED <<yielded, delayed, written, stats>>
               /\ w_pc' \in {"drop", "dropped", "done"}]_vars

WriterLoopProtocolWitness ==
    /\ w_pc = "done"
    /\ w_end = "werr"
    /\ w_result = "Ok"
    /\ Len(written) >= 2
    /\ Len(sent) > Len(yielded)

\* The rate kind the priority Pps > Bps > Full > Delayed gives.
ByPriority(p, m, f) ==
    IF p # {} THEN "Pps"
    ELSE IF m # {} THEN "Mbps"
    ELSE IF f THEN "Full"
    ELSE "Delayed"

\* C16: get_rate answers by the priority Pps > Bps > Full > Delayed for every
\* combination of rate options; the pipe is created with the one delayer of
\* the rate so chosen, except that an interface input with neither pps nor
\* mbps gets NoDelay (Full), never PacketRateDelay (Delayed).
RateSelection ==
    /\ \A p \in Opt(0..MaxRate), m \in Opt(0..MaxRate), f \in BOOLEAN :
            GetRate(p, m, f).kind = ByPriority(p, m, f)
    /\ m_pc \in {"watermarks", "signals", "upgrade"}
            => rate.kind = ByPriority(pps, mbps, fullspeed)
    /\ m_pc = "join_reader"
            => /\ delayer = DelayerFor(rate)
               /\ delayer \in {"NoDelay", "PacketRateDelay", "BpsDelay",
                               "PpsDelay"}
               /\ rate.kind =
                    (IF method = "Interface" /\ pps = {} /\ mbps = {}
                     THEN "Full"
                     ELSE ByPriority(pps, mbps, fullspeed))
               /\ (method = "Interface" /\ pps = {} /\ mbps = {})
                    => delayer = "NoDelay"

RateSelectionWitness ==
    /\ m_pc = "join_reader"
    /\ method = "Interface"
    /\ RateOptions = 0
    /\ delayer = "NoDelay"

\* C18: the channel is created only with 0 < lo < hi, and every other
\* configuration ends in an exit with failure and no pipe created.
WatermarkConfiguration ==
    /\ m_pc \in {"pipe", "join_reader"} => (0 < lo /\ lo < hi)
    /\ (m_pc \in {"signals", "upgrade", "create", "pipe", "join_reader",
                  "exit"}
        /\ rate.kind # "none"
        /\ ~(0 < ch_low /\ ch_low < ch_hi))
            => (m_pc = "exit" /\ ret = -1 /\ hi = 0 /\ delayer = "none")

\* C25: whenever the consumer executes packets -= 1, that is holds a received
\* packet and can take the mutex, the counter is at least 1; the decrement
\* never underflows.
NoUnderflow ==
    /\ w_pc # "panic"
    /\ (w_pc = "dec" /\ mux = "free") => packets >= 1

NoUnderflowWitness ==
    /\ w_pc = "dec"
    /\ mux = "tx"
    /\ r_pc = "inc"
    /\ packets = 0

\* C21: every PpsDelay and BpsDelay the pipe is created with has a target of
\* at least 1.
RateTargetsPositive ==
    (m_pc = "join_reader" /\ delayer \in {"PpsDelay", "BpsDelay"})
        => rate.val >= 1

\* A step that is a call of Stats::update.
IsStatsUpdate == st_packets' + st_invalid' # st_packets + st_invalid

\* C22: a Stats::update with an interval set sends a summary and sets
\* last_stat to now exactly when now - last_stat >= interval, equality
\* included; a send that fails is logged, and it neither changes what the
\* update does to the counters nor stops the writer.
PeriodicReporting ==
    [][(IsStatsUpdate /\ interval # {})
        => /\ IF now - last_stat >= The(interval)
              THEN /\ last_stat' = now
                   /\ IF report_rx
                      THEN /\ reports' = Append(reports, now)
                           /\ warned' = warned
                      ELSE /\ reports' = reports
                           /\ warned' = warned + 1
              ELSE UNCHANGED <<last_stat, reports, warned>>
           /\ st_packets' + st_invalid' = st_packets + st_invalid + 1
           /\ UNCHANGED <<w_pc, w_end>>]_vars

\* A step that is a call of Delayer::wait_time_for.
IsDelayCall == d_calls' = d_calls + 1

\* The time the writer sleeps for a returned wait.
SleepTime(w) == IF w = {} THEN 0 ELSE The(w)

\* C23: PacketRateDelay gives its first packet no wait; a later packet gets
\* the wait pkt.when - last_packet when that is not negative, which is a
\* sleep of 0 for equal timestamps, and no wait when time ran backward;
\* last_packet is pkt.when after every call.
PacketRateProtocol ==
    /\ [](delayer = "PacketRateDelay" => (d_calls = 0 <=> last_packet = {}))
    /\ [][(IsDelayCall /\ delayer = "PacketRateDelay")
            => /\ last_packet = {} => wait' = {}
               /\ (last_packet # {} /\ d_pkt'.when >= The(last_packet))
                    => wait' = {(d_pkt'.when - The(last_packet))
                                    * MicrosPerSec}
               /\ (last_packet # {} /\ d_pkt'.when < The(last_packet))
                    => wait' = {}
               /\ last_packet = {d_pkt'.when} => SleepTime(wait') = 0
               /\ last_packet' = {d_pkt'.when}
               /\ d_pc' = "ok"]_vars

PacketRateProtocolWitness ==
    /\ delayer = "PacketRateDelay"
    /\ d_calls >= 3
    /\ wait = {}
    /\ last_packet = {0}

\* C24: every wait_time_for of BpsDelay returns, with the wait computed from
\* the bits accounted before the call: estimated = bits_sent * 1_000_000 /
\* bps, the wait being estimated - elapsed when positive and none otherwise;
\* the first packet gets no wait and bits_sent grows by 8 * len.
BpsAccounting ==
    [][(IsDelayCall /\ delayer = "BpsDelay")
        => /\ d_pc' = "ok"
           /\ wait' =
                (IF Elapsed(d_start) < (bits_sent * MicrosPerSec) \div rate.val
                 THEN {(bits_sent * MicrosPerSec) \div rate.val
                            - Elapsed(d_start)}
                 ELSE {})
           /\ d_calls = 0 => wait' = {}
           /\ bits_sent' = bits_sent + 8 * d_pkt'.len]_vars

\* C26: the product bits_sent * 1_000_000 always fits the word, and the
\* estimated emission time never decreases from one call to the next.
BpsNeverWraps ==
    /\ [](delayer = "BpsDelay" => ~MulWraps(bits_sent, MicrosPerSec))
    /\ [][(IsDelayCall /\ delayer = "BpsDelay" /\ d_pc' = "ok")
            => BpsEstimated(bits_sent', rate.val)
                    >= BpsEstimated(bits_sent, rate.val)]_vars

====
